---- MODULE Spec2Model ----
(***************************************************************************)
(* Model of the intersection resolver of rust-geo-booleanop                *)
(* (src/boolean/possible_intersection.rs).  Coordinates are exact          *)
(* rationals <<n, d>> (d > 0, lowest terms), so that point equality is     *)
(* exact as in the resolver.  Sweep events live in an arena `ev` and are   *)
(* referred to by index (an Rc<SweepEvent> is an index, Rc::ptr_eq is      *)
(* index equality, a missing Weak target is index 0).                      *)
(***************************************************************************)
EXTENDS Integers, Sequences, FiniteSets, TLC

\* ---- bounds of the model ----
MaxX == 3
MaxY == 1
MaxSplits == 3

\* ---- exact rational arithmetic (stand-in for F: Float) ----
Abs(n) == IF n < 0 THEN -n ELSE n

RECURSIVE GCD(_, _)
GCD(a, b) == IF b = 0 THEN a ELSE GCD(b, a % b)

Norm(n, d) ==
  LET s == IF d < 0 THEN -1 ELSE 1
      g == GCD(Abs(n), Abs(d))
  IN <<(s * n) \div g, (s * d) \div g>>

FInt(n) == <<n, 1>>
FAdd(a, b) == Norm(a[1] * b[2] + b[1] * a[2], a[2] * b[2])
FSub(a, b) == Norm(a[1] * b[2] - b[1] * a[2], a[2] * b[2])
FMul(a, b) == Norm(a[1] * b[1], a[2] * b[2])
FDiv(a, b) == Norm(a[1] * b[2], a[2] * b[1])
FLt(a, b) == a[1] * b[2] < b[1] * a[2]
FLe(a, b) == a[1] * b[2] <= b[1] * a[2]
FMin(a, b) == IF FLt(b, a) THEN b ELSE a
FMax(a, b) == IF FLt(a, b) THEN b ELSE a
FZero == FInt(0)
FOne == FInt(1)

\* ---- points and vectors: <<x, y>> of rationals ----
Pt(x, y) == <<FInt(x), FInt(y)>>
VSub(p, q) == <<FSub(p[1], q[1]), FSub(p[2], q[2])>>
cross_product(u, v) == FSub(FMul(u[1], v[2]), FMul(u[2], v[1]))
dot_product(u, v) == FAdd(FMul(u[1], v[1]), FMul(u[2], v[2]))
mid_point(p, s, d) == <<FAdd(p[1], FMul(s, d[1])), FAdd(p[2], FMul(s, d[2]))>>

\* lexicographic order on points, x then y
PointLt(p, q) == FLt(p[1], q[1]) \/ (p[1] = q[1] /\ FLt(p[2], q[2]))

\* ---- Geometry Predicate: classify(a1, a2, b1, b2) ----
NoneI == [kind |-> "None", p |-> Pt(0, 0), q |-> Pt(0, 0)]
PointI(p) == [kind |-> "Point", p |-> p, q |-> p]
OverlapI(p, q) == [kind |-> "Overlap", p |-> p, q |-> q]

intersection(a1, a2, b1, b2) ==
  LET va == VSub(a2, a1)
      vb == VSub(b2, b1)
      e == VSub(b1, a1)
      kross == cross_product(va, vb)
      s == FDiv(cross_product(e, vb), kross)
      t == FDiv(cross_product(e, va), kross)
      sqr_len_a == dot_product(va, va)
      sa == FDiv(dot_product(va, e), sqr_len_a)
      sb == FAdd(sa, FDiv(dot_product(va, vb), sqr_len_a))
      smin == FMin(sa, sb)
      smax == FMax(sa, sb)
  IN IF kross # FZero
     THEN IF FLt(s, FZero) \/ FLt(FOne, s) \/ FLt(t, FZero) \/ FLt(FOne, t)
          THEN NoneI
          ELSE IF s = FZero \/ s = FOne
               THEN PointI(mid_point(a1, s, va))
               ELSE IF t = FZero \/ t = FOne
                    THEN PointI(mid_point(b1, t, vb))
                    ELSE PointI(mid_point(a1, s, va))
     ELSE IF cross_product(e, va) # FZero \/ sqr_len_a = FZero
          THEN NoneI
          ELSE IF FLe(smin, FOne) /\ FLe(FZero, smax)
               THEN IF smin = FOne
                    THEN PointI(mid_point(a1, smin, va))
                    ELSE IF smax = FZero
                         THEN PointI(mid_point(a1, smax, va))
                         ELSE OverlapI(mid_point(a1, FMax(smin, FZero), va),
                                       mid_point(a1, FMin(smax, FOne), va))
               ELSE NoneI

\* ---- Sweep Event ----
SweepEvent(point, left, other, isSubject, inOut) ==
  [point |-> point, left |-> left, other |-> other, isSubject |-> isSubject,
   edgeType |-> "Normal", inOut |-> inOut]

\* Event Ordering: e1 is visited before e2 by the sweep
Earlier(e1, e2) ==
  \/ PointLt(e1.point, e2.point)
  \/ (e1.point = e2.point /\ ~e1.left /\ e2.left)

\* the `<` of Ord for SweepEvent: inverted, so that the max-heap pops the
\* earliest event first
Lt(e1, e2) == Earlier(e2, e1)

\* ---- Segment Splitter ----
\* st = [ev, queue, divs]: the arena, the queue and the log of splitter calls
divide_segment(st, se, inter) ==
  LET oe == st.ev[se].other
      n == Len(st.ev)
      r == SweepEvent(inter, FALSE, se, st.ev[se].isSubject, FALSE)
      l == SweepEvent(inter, TRUE, oe, st.ev[se].isSubject, FALSE)
  IN IF oe = 0
     THEN st
     ELSE [ev |-> Append(Append([st.ev EXCEPT ![oe].other = n + 2,
                                              ![se].other = n + 1], r), l),
           queue |-> st.queue \cup {n + 1, n + 2},
           divs |-> Append(st.divs, [se |-> se, oe |-> oe, p |-> inter,
                                     a |-> st.ev[se].point,
                                     b |-> st.ev[oe].point,
                                     r |-> n + 1, l |-> n + 2])]

\* faulty variant: splits an edge as soon as inter differs from one of its endpoints
PointBranch_EitherEndpoint(st, se1, se2, other1, other2, inter) ==
  LET s1 == IF st.ev[se1].point # inter \/ st.ev[other1].point # inter
            THEN divide_segment(st, se1, inter)
            ELSE st
      s2 == IF st.ev[se2].point # inter \/ st.ev[other2].point # inter
            THEN divide_segment(s1, se2, inter)
            ELSE s1
  IN [st |-> s2, ret |-> 1]

\* faulty variant: the second split is made on se1 again instead of se2
PointBranch_SplitFirstTwice(st, se1, se2, other1, other2, inter) ==
  LET s1 == IF st.ev[se1].point # inter /\ st.ev[other1].point # inter
            THEN divide_segment(st, se1, inter)
            ELSE st
      s2 == IF st.ev[se2].point # inter /\ st.ev[other2].point # inter
            THEN divide_segment(s1, se1, inter)
            ELSE s1
  IN [st |-> s2, ret |-> 1]

\* ---- Intersection Resolver ----
\* LineIntersection::Point(inter) arm
PointBranch(st, se1, se2, other1, other2, inter) ==
  LET s1 == IF st.ev[se1].point # inter /\ st.ev[other1].point # inter
            THEN divide_segment(st, se1, inter)
            ELSE st
      s2 == IF st.ev[se2].point # inter /\ st.ev[other2].point # inter
            THEN divide_segment(s1, se2, inter)
            ELSE s1
  IN [st |-> s2, ret |-> 1]

\* the working list `events` of the Overlap arm: pairs <<event, its pair>>
\* faulty variant: the comparison is reversed
LeftEntries_Reversed(e, se1, se2, other1, other2) ==
  IF e[se1].point = e[se2].point
  THEN << >>
  ELSE IF Lt(e[se2], e[se1])
       THEN << <<se2, other2>>, <<se1, other1>> >>
       ELSE << <<se1, other1>>, <<se2, other2>> >>

LeftEntries(e, se1, se2, other1, other2) ==
  IF e[se1].point = e[se2].point
  THEN << >>
  ELSE IF Lt(e[se1], e[se2])
       THEN << <<se2, other2>>, <<se1, other1>> >>
       ELSE << <<se1, other1>>, <<se2, other2>> >>

RightEntries(e, se1, se2, other1, other2) ==
  IF e[other1].point = e[other2].point
  THEN << >>
  ELSE IF Lt(e[other1], e[other2])
       THEN << <<other2, se2>>, <<other1, se1>> >>
       ELSE << <<other1, se1>>, <<other2, se2>> >>

OverlapEvents(e, se1, se2, other1, other2) ==
  LeftEntries(e, se1, se2, other1, other2) \o RightEntries(e, se1, se2, other1, other2)

\* faulty variant: the two transition types are exchanged
TransitionType_Exchanged(inOut1, inOut2) ==
  IF inOut1 # inOut2 THEN "SameTransition" ELSE "DifferentTransition"

\* edge type given to se1 when the left endpoints coincide
TransitionType(inOut1, inOut2) ==
  IF inOut1 = inOut2 THEN "SameTransition" ELSE "DifferentTransition"

LeftCoincideBranch(st, se1, se2, events, right_coincide) ==
  LET typed == [st EXCEPT
                  !.ev = [[st.ev EXCEPT ![se2].edgeType = "NonContributing"]
                            EXCEPT ![se1].edgeType =
                                     TransitionType(st.ev[se1].inOut, st.ev[se2].inOut)]]
  IN [st |-> IF ~right_coincide
             THEN divide_segment(typed, events[2][2], typed.ev[events[1][1]].point)
             ELSE typed,
      ret |-> 2]

\* faulty variant: the later-starting edge is split at the earlier left endpoint
RightCoincideBranch_Swapped(st, events) ==
  [st |-> divide_segment(st, events[2][1], st.ev[events[1][1]].point), ret |-> 3]

RightCoincideBranch(st, events) ==
  [st |-> divide_segment(st, events[1][1], st.ev[events[2][1]].point), ret |-> 3]

\* faulty variant: reports the code of the left-coincident case
PartialBranch_Code2(st, events) ==
  LET s1 == divide_segment(st, events[1][1], st.ev[events[2][1]].point)
  IN [st |-> divide_segment(s1, events[2][1], s1.ev[events[3][1]].point), ret |-> 2]

\* no line segment includes totally the other one
PartialBranch(st, events) ==
  LET s1 == divide_segment(st, events[1][1], st.ev[events[2][1]].point)
  IN [st |-> divide_segment(s1, events[2][1], s1.ev[events[3][1]].point), ret |-> 3]

\* one line segment includes the other one
ContainBranch(st, events) ==
  LET s1 == divide_segment(st, events[1][1], st.ev[events[2][1]].point)
  IN [st |-> divide_segment(s1, events[4][2], s1.ev[events[3][1]].point), ret |-> 3]

OverlapBranch(st, se1, se2, other1, other2) ==
  LET events == OverlapEvents(st.ev, se1, se2, other1, other2)
      left_coincide == st.ev[se1].point = st.ev[se2].point
      right_coincide == st.ev[other1].point = st.ev[other2].point
  IN IF left_coincide
     THEN LeftCoincideBranch(st, se1, se2, events, right_coincide)
     ELSE IF right_coincide
          THEN RightCoincideBranch(st, events)
          ELSE IF events[1][1] # events[4][2]
               THEN PartialBranch(st, events)
               ELSE ContainBranch(st, events)

\* faulty variant: the same-polygon guard is missing
SamePolygon_Missing(e, se1, se2) == FALSE

\* guard of the first Overlap arm
SamePolygon(e, se1, se2) == e[se1].isSubject = e[se2].isSubject

\* guard of the first Point arm: both edges share both endpoints
SameEndpoints(e, se1, se2, other1, other2) ==
  e[se1].point = e[se2].point /\ e[other1].point = e[other2].point

possible_intersection(st, se1, se2) ==
  LET other1 == st.ev[se1].other
      other2 == st.ev[se2].other
      i == intersection(st.ev[se1].point, st.ev[other1].point,
                        st.ev[se2].point, st.ev[other2].point)
  IN IF other1 = 0 \/ other2 = 0
     THEN [st |-> st, ret |-> 0]
     ELSE IF i.kind = "None"
          THEN [st |-> st, ret |-> 0]
          ELSE IF i.kind = "Point"
               THEN IF SameEndpoints(st.ev, se1, se2, other1, other2)
                    THEN [st |-> st, ret |-> 0]
                    ELSE PointBranch(st, se1, se2, other1, other2, i.p)
               ELSE IF SamePolygon(st.ev, se1, se2)
                    THEN [st |-> st, ret |-> 0]
                    ELSE OverlapBranch(st, se1, se2, other1, other2)

\* ---- state machine ----
VARIABLES ev, queue, call
vars == <<ev, queue, call>>

GridPoints == {Pt(x, y) : x \in 0..MaxX, y \in 0..MaxY}
\* an input edge: left endpoint first under the Event Ordering
Edges == {<<a, b>> \in GridPoints \X GridPoints : PointLt(a, b)}

NoCall == [se1 |-> 0, se2 |-> 0, ret |-> 0, divs |-> << >>, pre |-> << >>, preq |-> {}]

\* order on input edges, used to enumerate unordered pairs of edges
EdgeLe(e1, e2) ==
  \/ PointLt(e1[1], e2[1])
  \/ (e1[1] = e2[1] /\ (e1[2] = e2[2] \/ PointLt(e1[2], e2[2])))

\* two edges as built by the callers: events 1-2 are the first edge (subject),
\* events 3-4 the second.  The resolver reads is_subject and in_out only
\* through equality tests, so the first edge is the subject one with
\* in_out = false and the pair of edges is enumerated up to exchange.
\* `orphan` is the left event (if any) whose complementary link has not been
\* established (its flags are the defaults).
Init ==
  \E e1 \in Edges, e2 \in Edges, subj2 \in BOOLEAN, io2 \in BOOLEAN, orphan \in 0..2 :
    /\ EdgeLe(e1, e2)
    /\ orphan # 0 => (~io2 /\ ~subj2)
    /\ ev = << SweepEvent(e1[1], TRUE, IF orphan = 1 THEN 0 ELSE 2, TRUE, FALSE),
               SweepEvent(e1[2], FALSE, 1, TRUE, FALSE),
               SweepEvent(e2[1], TRUE, IF orphan = 2 THEN 0 ELSE 4, subj2, io2),
               SweepEvent(e2[2], FALSE, 3, subj2, io2) >>
    /\ queue = {}
    /\ call = NoCall

\* splits performed so far: every split appends two events to the arena
NumSplits == (Len(ev) - 4) \div 2

LeftEvents == {i \in 1..Len(ev) : ev[i].left}

\* the sweep loop calls the resolver on two edges of the active structure
Resolve(se1, se2) ==
  /\ NumSplits < MaxSplits
  \* a call that changed nothing leads to a state with the same arena and
  \* queue as the one before it: every call possible after it was already
  \* possible before it, so it is not explored a second time
  /\ call.se1 = 0 \/ ev # call.pre
  /\ \E res \in {possible_intersection([ev |-> ev, queue |-> queue, divs |-> << >>],
                                        se1, se2)} :
        /\ ev' = res.st.ev
        /\ queue' = res.st.queue
        /\ call' = [se1 |-> se1, se2 |-> se2, ret |-> res.ret,
                    divs |-> res.st.divs, pre |-> ev, preq |-> queue]

Next == \E se1 \in LeftEvents, se2 \in LeftEvents : se1 # se2 /\ Resolve(se1, se2)

Spec == Init /\ [][Next]_vars

\* ---- geometry used to state the properties ----
SqLen(a, b) == dot_product(VSub(b, a), VSub(b, a))

\* p lies on the segment a-b and differs from both a and b
StrictlyBetween(a, p, b) ==
  LET u == VSub(b, a)
      w == VSub(p, a)
  IN /\ cross_product(u, w) = FZero
     /\ FLt(FZero, dot_product(u, w))
     /\ FLt(dot_product(u, w), dot_product(u, u))

Sign(f) == IF f[1] > 0 THEN 1 ELSE IF f[1] < 0 THEN -1 ELSE 0

\* a-b and c-d cross at a point interior to both
ProperCross(a, b, c, d) ==
  /\ Sign(cross_product(VSub(b, a), VSub(c, a))) * Sign(cross_product(VSub(b, a), VSub(d, a))) < 0
  /\ Sign(cross_product(VSub(d, c), VSub(a, c))) * Sign(cross_product(VSub(d, c), VSub(b, c))) < 0

Collinear(a, b, c, d) ==
  /\ cross_product(VSub(b, a), VSub(c, a)) = FZero
  /\ cross_product(VSub(b, a), VSub(d, a)) = FZero

PMax(p, q) == IF PointLt(p, q) THEN q ELSE p
PMin(p, q) == IF PointLt(p, q) THEN p ELSE q

\* ---- the last call, read from its record ----
Acted == call.se1 # 0
PreOther(se) == call.pre[se].other
CallLinked == Acted /\ PreOther(call.se1) # 0 /\ PreOther(call.se2) # 0
A1 == call.pre[call.se1].point
A2 == call.pre[PreOther(call.se1)].point
B1 == call.pre[call.se2].point
B2 == call.pre[PreOther(call.se2)].point
Classified == intersection(A1, A2, B1, B2)
DiffPolygons == call.pre[call.se1].isSubject # call.pre[call.se2].isSubject
NumDivs == Len(call.divs)
Added == queue \ call.preq

\* an edge whose left event is its earlier endpoint
WellFormedEdge(e, se) ==
  /\ e[se].left
  /\ e[se].other # 0
  /\ ~e[e[se].other].left
  /\ PointLt(e[se].point, e[e[se].other].point)
WellFormedCall ==
  CallLinked /\ WellFormedEdge(call.pre, call.se1) /\ WellFormedEdge(call.pre, call.se2)

\* two well-formed collinear edges that share more than a point
CollinearOverlap ==
  /\ WellFormedCall
  /\ Collinear(A1, A2, B1, B2)
  /\ PointLt(PMax(A1, B1), PMin(A2, B2))

\* ---- C1 ----
\* C1: every call to divide_segment passes a split point strictly between the
\* two endpoints the passed event's edge has at the moment of the call.
C1_SplitPointInterior ==
  \A k \in 1..NumDivs :
    StrictlyBetween(call.divs[k].a, call.divs[k].p, call.divs[k].b)

\* ---- C2 ----
Fragments(big) ==
  {<<ev[f].point, ev[ev[f].other].point>> :
     f \in {big} \cup {call.divs[k].l : k \in 1..NumDivs}}

ContainmentHolds(big, small, a1, a2, b1, b2) ==
  /\ call.ret = 3
  /\ NumDivs = 2
  /\ Fragments(big) = {<<a1, b1>>, <<b1, b2>>, <<b2, a2>>}
  /\ ev[small] = call.pre[small]
  /\ ev[PreOther(small)] = call.pre[PreOther(small)]

\* C2: when A's span strictly contains B's (collinear, different polygons, no
\* shared endpoint) the call makes two splits, returns 3, leaves A as head,
\* middle and tail fragments partitioning A's span with the middle fragment
\* on B's endpoints, and leaves B unchanged.
C2_FullContainment ==
  (WellFormedCall /\ DiffPolygons /\ Collinear(A1, A2, B1, B2)) =>
    /\ (PointLt(A1, B1) /\ PointLt(B2, A2)) =>
         ContainmentHolds(call.se1, call.se2, A1, A2, B1, B2)
    /\ (PointLt(B1, A1) /\ PointLt(A2, B2)) =>
         ContainmentHolds(call.se2, call.se1, B1, B2, A1, A2)

\* ---- C3 ----
\* no point of one edge of the call is interior to the other edge
NoInterior ==
  /\ WellFormedCall
  /\ ~StrictlyBetween(A1, B1, A2) /\ ~StrictlyBetween(A1, B2, A2)
  /\ ~StrictlyBetween(B1, A1, B2) /\ ~StrictlyBetween(B1, A2, B2)
  /\ ~ProperCross(A1, A2, B1, B2)
RepeatedCall == Acted /\ Len(call.pre) > 4 /\ NoInterior

ExpectedTransition ==
  IF call.pre[call.se1].inOut = call.pre[call.se2].inOut
  THEN "SameTransition" ELSE "DifferentTransition"

LeftCoincideCall ==
  CallLinked /\ DiffPolygons /\ A1 = B1 /\ Classified.kind = "Overlap"

\* C4: for overlapping edges of different polygons with se1.point = se2.point
\* the call returns 2, se2 becomes NonContributing, se1 becomes SameTransition
\* iff the in_out flags agree (else DifferentTransition), and no other
\* event's edge_type changes.
C4_LeftCoincideTypes ==
  LeftCoincideCall =>
    /\ call.ret = 2
    /\ ev[call.se2].edgeType = "NonContributing"
    /\ ev[call.se1].edgeType = ExpectedTransition
    /\ \A i \in 1..Len(ev) :
         i \notin {call.se1, call.se2} =>
           ev[i].edgeType = (IF i <= Len(call.pre) THEN call.pre[i].edgeType ELSE "Normal")

C4_Witness ==
  /\ LeftCoincideCall
  /\ call.ret = 2
  /\ NumDivs = 1
  /\ ev[call.se1].edgeType = "DifferentTransition"
  /\ call.pre[call.se1].edgeType = "Normal"

\* ---- C5 ----
PointCall ==
  CallLinked /\ Classified.kind = "Point" /\ ~(A1 = B1 /\ A2 = B2)

SplitsOf(se) == {k \in 1..NumDivs : call.divs[k].se = se}

\* the split logged at k cut the edge a-b of the pre-state at inter
SplitAt(k, inter) ==
  LET d == call.divs[k]
  IN /\ d.p = inter
     /\ d.a = call.pre[d.se].point
     /\ d.oe = call.pre[d.se].other
     /\ d.b = call.pre[d.oe].point
     /\ {d.r, d.l} \subseteq Added
     /\ ev[d.r].point = inter /\ ev[d.l].point = inter
     /\ ev[d.r].other = d.se /\ ev[d.se].other = d.r
     /\ ev[d.l].other = d.oe /\ ev[d.oe].other = d.l

C6_ReturnCodeBounds ==
  Acted =>
    /\ call.ret \in 0..3
    /\ NumDivs <= 2
    /\ call.ret = 0 => NumDivs = 0
    /\ call.ret = 2 => NumDivs <= 1
    /\ call.ret = 3 => NumDivs >= 1

C6_Witness == Acted /\ call.ret = 3 /\ NumDivs = 1

\* ---- C7 ----
\* the bounding extents of the two edges of the call do not meet
DisjointExtents ==
  \/ FLt(FMax(A1[1], A2[1]), FMin(B1[1], B2[1]))
  \/ FLt(FMax(B1[1], B2[1]), FMin(A1[1], A2[1]))
  \/ FLt(FMax(A1[2], A2[2]), FMin(B1[2], B2[2]))
  \/ FLt(FMax(B1[2], B2[2]), FMin(A1[2], A2[2]))

NoOpCase ==
  /\ Acted
  /\ \/ ~CallLinked
     \/ DisjointExtents
     \/ Classified.kind = "None"
     \/ (Classified.kind = "Point" /\ A1 = B1 /\ A2 = B2)
     \/ (Classified.kind = "Overlap" /\ ~DiffPolygons)

\* C7: when an event lacks its complementary event, or the predicate reports
\* None (e.g. disjoint extents), or a point while both edges share both
\* endpoints, or an overlap of edges of the same polygon, the call returns 0,
\* queues nothing and leaves every field of every event unchanged.
C7_NoOpUnchanged ==
  (call.ret = 0 /\ queue = call.preq /\ ev = call.pre) \/ ~NoOpCase

C7_Witness ==
  /\ CallLinked
  /\ CollinearOverlap
  /\ ~DiffPolygons
  /\ call.ret = 0
  /\ ev = call.pre
  /\ ev[call.se1].edgeType = "Normal"

\* ---- C8 ----
Untouched(se) ==
  /\ SplitsOf(se) = {}
  /\ ev[se].other = call.pre[se].other
  /\ ev[PreOther(se)].other = se

\* exactly one split, of the edge of `se`, at point p
OneSplit(se, p) ==
  /\ NumDivs = 1
  /\ call.divs[1].se = se
  /\ call.divs[1].p = p
  /\ ev[ev[se].other].point = p

\* C8: for overlapping edges of different polygons sharing only the left
\* endpoint, the longer edge is split once where the shorter ends (return 2);
\* sharing only the right endpoint, the edge with the earlier left endpoint is
\* split once at the later left endpoint (return 3); the shorter edge is not
\* split.
C8_OneSharedEndpoint ==
  (CallLinked /\ DiffPolygons /\ CollinearOverlap) =>
    /\ (A1 = B1 /\ PointLt(A2, B2)) =>
         (call.ret = 2 /\ OneSplit(call.se2, A2) /\ Untouched(call.se1))
    /\ (A1 = B1 /\ PointLt(B2, A2)) =>
         (call.ret = 2 /\ OneSplit(call.se1, B2) /\ Untouched(call.se2))
    /\ (A2 = B2 /\ PointLt(A1, B1)) =>
         (call.ret = 3 /\ OneSplit(call.se1, B1) /\ Untouched(call.se2))
    /\ (A2 = B2 /\ PointLt(B1, A1)) =>
         (call.ret = 3 /\ OneSplit(call.se2, A1) /\ Untouched(call.se1))

C8_Witness ==
  /\ CallLinked /\ DiffPolygons /\ CollinearOverlap
  /\ A2 = B2 /\ PointLt(A1, B1)
  /\ call.ret = 3
  /\ OneSplit(call.se1, B1)

\* ---- C9 ----
\* C9: every split replaces an edge by sub-edges that are each strictly
\* shorter than the edge that was split.
C9_SplitsShorten ==
  \A k \in 1..NumDivs :
    LET d == call.divs[k]
    IN /\ FLt(SqLen(d.a, d.p), SqLen(d.a, d.b))
       /\ FLt(SqLen(d.p, d.b), SqLen(d.a, d.b))

\* ---- C10 ----
OverlapCall == CallLinked /\ DiffPolygons /\ Classified.kind = "Overlap"
WorkingLeft ==
  LeftEntries(call.pre, call.se1, call.se2, PreOther(call.se1), PreOther(call.se2))
WorkingRight ==
  RightEntries(call.pre, call.se1, call.se2, PreOther(call.se1), PreOther(call.se2))

\* entries w[1], w[2] are the events x, y with x's pair first
PairOf(w, first, second) ==
  /\ Len(w) = 2
  /\ w[1][1] = first /\ w[2][1] = second
  /\ w[1][2] = call.pre[first].other /\ w[2][2] = call.pre[second].other

\* C10 as stated: when se1.point # se2.point the first working entry is the
\* event that is later under the Event Ordering and the second the earlier
\* one; the right-endpoint pair is appended in the same (later, earlier) order.
C10_LaterFirst ==
  OverlapCall =>
    /\ A1 # B1 =>
         \E x, y \in {call.se1, call.se2} :
           Earlier(call.pre[y], call.pre[x]) /\ PairOf(WorkingLeft, x, y)
    /\ A2 # B2 =>
         \E x, y \in {PreOther(call.se1), PreOther(call.se2)} :
           Earlier(call.pre[y], call.pre[x]) /\ PairOf(WorkingRight, x, y)

\* C10 amended: the first working entry is the event that is earlier under the
\* Event Ordering and the second the later one, for the left-endpoint pair
\* and for the right-endpoint pair alike.
C10_EarlierFirst ==
  OverlapCall =>
    /\ A1 = B1 => WorkingLeft = << >>
    /\ A1 # B1 =>
         \E x, y \in {call.se1, call.se2} :
           Earlier(call.pre[x], call.pre[y]) /\ PairOf(WorkingLeft, x, y)
    /\ A2 = B2 => WorkingRight = << >>
    /\ A2 # B2 =>
         \E x, y \in {PreOther(call.se1), PreOther(call.se2)} :
           Earlier(call.pre[x], call.pre[y]) /\ PairOf(WorkingRight, x, y)

C10_Witness ==
  /\ OverlapCall /\ WellFormedCall
  /\ A1 # B1 /\ A2 # B2
  /\ PointLt(B1, A1)
  /\ WorkingLeft[1][1] = call.se2
  /\ call.ret = 3


====
